---- MODULE Spec2Model ----
(***************************************************************************)
(* Model of the geometric core of dia.Element (src/dia/Element.mjs):       *)
(* position, translate, resize, scale, rotate, getBBox and fitEmbeds.      *)
(*                                                                         *)
(* Each behaviour is one construction of a small graph (Init) followed by  *)
(* one call of one public method on one element.  The state keeps the      *)
(* attributes before the call (`before`), the call itself (`call`), the    *)
(* options object as the call left it (`opt`), the notifications the call  *)
(* emitted (`events`), the error it raised (`thrown`) and the value it     *)
(* returned (`ret`), so that every pre/post relation is a state predicate. *)
(*                                                                         *)
(* Numbers are integers.  Angles are multiples of 90 degrees, for which    *)
(* the trigonometry of resize and rotate is exact; a call whose result is  *)
(* not an integer is not explored.  NaN is kept: a point both of whose     *)
(* coordinates are NaN is the record NaNPoint.                             *)
(***************************************************************************)
EXTENDS Integers, Sequences, FiniteSets, TLC

VARIABLES graph, parent, attrs, batches, before, call, opt, events, thrown, ret

vars == <<graph, parent, attrs, batches, before, call, opt, events, thrown, ret>>

(***************************************************************************)
(* Bounds of the explored inputs.                                          *)
(***************************************************************************)
\* rotate is called with angles -90 .. 90 * MaxTurns
MaxTurns == 5
\* fitEmbeds is called with paddings -1 .. MaxPadding
MaxPadding == 2
\* scale is called with factors 1 .. MaxScale
MaxScale == 2
\* resize is called with widths and heights 0, 10 .. 10 * MaxSide
MaxSide == 2

Cells == {"a", "b", "c"}
None == "none"

\* The order of a cell's `embeds` array.
CellOrder == <<"a", "b", "c">>

NoError == "none"
GraphError == "Element must be part of a graph."
TypeError == "TypeError: bbox[...] is not a function"

BatchNames == {"translate", "resize", "scale", "rotate", "fit-embeds"}

Point(x, y) == [x |-> x, y |-> y]
NaNPoint == [nan |-> TRUE]
IsNaNPoint(p) == "nan" \in DOMAIN p
Size(w, h) == [width |-> w, height |-> h]
Rect(x, y, w, h) == [x |-> x, y |-> y, width |-> w, height |-> h]

Max(a, b) == IF a >= b THEN a ELSE b
Min(a, b) == IF a <= b THEN a ELSE b

(***************************************************************************)
(* Options objects: a JavaScript object is the function from its own keys  *)
(* to their values.  A missing key reads as undefined (falsy).             *)
(***************************************************************************)
NoOpt == [k \in {} |-> FALSE]
Has(o, k) == k \in DOMAIN o
Put(o, k, v) == [f \in (DOMAIN o) \cup {k} |-> IF f = k THEN v ELSE o[f]]
\* `o.k` read as the condition of an `if`, for a key that holds a boolean.
Flag(o, k) == Has(o, k) /\ o[k] = TRUE

(***************************************************************************)
(* The collaborators of Element: the attribute store and the batches of    *)
(* Cell, the embedding relation and the union box of Graph, the geometry   *)
(* kernel.  A world `w` is the mutable state a call works on:              *)
(*   attrs   cell -> [position, size, angle]                               *)
(*   batches cell -> batch name -> number of open batches                  *)
(*   events  the notifications emitted so far by the call                  *)
(*   thrown  the error that ended the call, or NoError                     *)
(*   opt     the options object handed down by reference                   *)
(*   inexact whether a coordinate the call computed is not an integer      *)
(***************************************************************************)
Event(type, cell, name) == [type |-> type, cell |-> cell, name |-> name]

Get(w, e, name) == w.attrs[e][name]

\* set(name, value, opt): stores the value and notifies 'change:<name>'.
Set(w, e, name, value) ==
    [w EXCEPT !.attrs[e][name] = value,
              !.events = Append(@, Event("change", e, name))]

\* set({position, size}, opt): one call, one notification per attribute.
SetBox(w, e, position, size) ==
    [w EXCEPT !.attrs[e].position = position,
              !.attrs[e].size = size,
              !.events = @ \o <<Event("change", e, "position"), Event("change", e, "size")>>]

startBatch(w, e, name) ==
    [w EXCEPT !.batches[e][name] = @ + 1,
              !.events = Append(@, Event("batch:start", e, name))]

stopBatch(w, e, name) ==
    [w EXCEPT !.batches[e][name] = @ - 1,
              !.events = Append(@, Event("batch:stop", e, name))]

\* `throw new Error(message)`: the rest of the call is skipped.
Throw(w, message) == [w EXCEPT !.thrown = message]

\* Whether the call was ended by an error: the statements that follow are skipped.
Threw(w) == w.thrown # NoError

\* this.stopBatch(name), reached unless an earlier statement threw.
ThenStopBatch(w, e, name) == IF Threw(w) THEN w ELSE stopBatch(w, e, name)

\* transition('position', value, ...): handed to the animation driver; the
\* attribute is not written by the call.
transition(w, e, name) == [w EXCEPT !.events = Append(@, Event("transition", e, name))]

getParentCell(e) == IF e \in graph THEN parent[e] ELSE None

Children(e) == {c \in Cells : parent[c] = e}

\* A set of cells as the sequence in which `embeds` lists them.
RECURSIVE InOrder(_, _)
InOrder(S, i) ==
    IF i > Len(CellOrder) THEN <<>>
    ELSE (IF CellOrder[i] \in S THEN <<CellOrder[i]>> ELSE <<>>) \o InOrder(S, i + 1)

\* getEmbeddedCells(): the direct children, [] for a cell outside a graph.
getEmbeddedCells(e) == IF e \in graph THEN InOrder(Children(e), 1) ELSE <<>>

RECURSIVE Descendants(_)
Descendants(e) ==
    Children(e) \cup UNION {Descendants(c) : c \in Children(e)}

\* getEmbeddedCells({ deep: true }) as a set.
getEmbeddedCellsDeep(e) == IF e \in graph THEN Descendants(e) ELSE {}

BoxOf(w, e) ==
    Rect(Get(w, e, "position").x, Get(w, e, "position").y,
         Get(w, e, "size").width, Get(w, e, "size").height)

SetMin(S) == CHOOSE m \in S : \A n \in S : m <= n
SetMax(S) == CHOOSE m \in S : \A n \in S : m >= n

\* graph.getCellsBBox(cells): the union box of the cells' own boxes.
getCellsBBox(w, cells) ==
    LET x == SetMin({BoxOf(w, c).x : c \in cells})
        y == SetMin({BoxOf(w, c).y : c \in cells})
        r == SetMax({BoxOf(w, c).x + BoxOf(w, c).width : c \in cells})
        b == SetMax({BoxOf(w, c).y + BoxOf(w, c).height : c \in cells})
    IN  Rect(x, y, r - x, b - y)

\* g.normalizeAngle: the angle in [0, 360).
normalizeAngle(angle) == angle % 360

\* JavaScript's a % n: the result has the sign of a.
JsRem(a, n) == IF a >= 0 THEN a % n ELSE -((-a) % n)

\* cos and sin of a multiple of 90 degrees.
Cos90(deg) == CASE deg % 360 = 0 -> 1 [] deg % 360 = 180 -> -1 [] OTHER -> 0
Sin90(deg) == CASE deg % 360 = 90 -> 1 [] deg % 360 = 270 -> -1 [] OTHER -> 0

\* g.Point.rotate(origin, angle): x' = cos(-angle) dx - sin(-angle) dy,
\* y' = sin(-angle) dx + cos(-angle) dy, about `origin`.
RotatePoint(p, origin, angle) ==
    LET dx == p.x - origin.x
        dy == p.y - origin.y
    IN  Point(Cos90(-angle) * dx - Sin90(-angle) * dy + origin.x,
              Sin90(-angle) * dx + Cos90(-angle) * dy + origin.y)

\* util.normalizeSides(padding) for a number or undefined.
normalizeSides(o) ==
    LET p == IF Has(o, "padding") THEN o.padding ELSE 0
    IN  [top |-> p, right |-> p, bottom |-> p, left |-> p]

\* g.Rect.moveAndExpand(r)
moveAndExpand(box, r) ==
    Rect(box.x + r.x, box.y + r.y, box.width + r.width, box.height + r.height)

\* g.Rect.scale(sx, sy, origin)
ScaleRect(box, sx, sy, origin) ==
    Rect(origin.x + sx * (box.x - origin.x), origin.y + sy * (box.y - origin.y),
         box.width * sx, box.height * sy)

(***************************************************************************)
(* Element.getBBox                                                         *)
(***************************************************************************)
getBBox(w, e, deep) ==
    IF deep /\ e \in graph
    THEN getCellsBBox(w, getEmbeddedCellsDeep(e) \cup {e})
    ELSE BoxOf(w, e)

(***************************************************************************)
(* Element.translate.  `d` holds the arguments tx and ty: a key that is    *)
(* missing stands for an argument that is undefined or NaN (both falsy).   *)
(***************************************************************************)
Delta(tx, ty) == [tx |-> tx, ty |-> ty]

\* tx = tx || 0
OrZero(d, k) == IF Has(d, k) THEN d[k] ELSE 0

\* Mutant of NothingHappened: the early return is missing.
NothingHappenedNever(tx, ty) == FALSE

\* if (tx === 0 && ty === 0): "Like nothing has happened."
NothingHappened(tx, ty) == tx = 0 /\ ty = 0

\* opt.translateBy = opt.translateBy || this.id
PassInitiator(o, e) == IF Has(o, "translateBy") THEN o ELSE Put(o, "translateBy", e)

\* Mutant of Restrict: the element's own origin is taken for the deep box's.
RestrictOwnOrigin(lo, len, off, blen, want) ==
    Max(lo, Min(lo + len - blen, want))

\* The restricted translation: the new x (or y) of the element, from the
\* near edge `lo` and length `len` of the restricted area, the offset `off`
\* of the element in its deep box, the deep box's length `blen`, and the
\* wanted coordinate `want`.
Restrict(lo, len, off, blen, want) ==
    Max(lo + off, Min(lo + len + off - blen, want))

\* Mutant of TranslatedPosition: tx is added to y.
TranslatedPositionTxTwice(position, tx, ty) == Point(position.x + tx, position.y + tx)

\* var translatedPosition = { x: position.x + tx, y: position.y + ty }
TranslatedPosition(position, tx, ty) == Point(position.x + tx, position.y + ty)

RECURSIVE translate(_, _, _)
RECURSIVE invokeTranslate(_, _, _)

\* invoke(cells, 'translate', tx, ty, opt)
invokeTranslate(w, cells, d) ==
    IF cells = <<>> THEN w
    ELSE invokeTranslate(translate(w, Head(cells), d), Tail(cells), d)

translate(w, e, d) ==
    LET tx0 == OrZero(d, "tx")
        ty0 == OrZero(d, "ty")
    IN
    IF NothingHappened(tx0, ty0) THEN w
    ELSE
    LET o1 == PassInitiator(w.opt, e)
        position == Get(w, e, "position")
        restricted == Has(o1, "restrictedArea") /\ o1.translateBy = e
        bbox == getBBox(w, e, TRUE)
        ra == o1.restrictedArea
        dx == position.x - bbox.x
        dy == position.y - bbox.y
        x == Restrict(ra.x, ra.width, dx, bbox.width, position.x + tx0)
        y == Restrict(ra.y, ra.height, dy, bbox.height, position.y + ty0)
        tx == IF restricted THEN x - position.x ELSE tx0
        ty == IF restricted THEN y - position.y ELSE ty0
        translatedPosition == TranslatedPosition(position, tx, ty)
        o2 == Put(Put(o1, "tx", tx), "ty", ty)
    IN
    IF Has(o2, "transition")
    THEN LET o3 == IF o2.transition = "true" THEN Put(o2, "transition", "{}") ELSE o2
             w1 == transition([w EXCEPT !.opt = o3], e, "position")
         IN  invokeTranslate(w1, getEmbeddedCells(e), Delta(tx, ty))
    ELSE LET w1 == startBatch([w EXCEPT !.opt = o2], e, "translate")
             w2 == Set(w1, e, "position", translatedPosition)
             w3 == invokeTranslate(w2, getEmbeddedCells(e), Delta(tx, ty))
         IN  stopBatch(w3, e, "translate")

(***************************************************************************)
(* Element.position.  A point to set may be NaNPoint.                      *)
(***************************************************************************)
\* parent && !parent.isLink() ? parent.get('position') : { x: 0, y: 0 }
parentPosition(w, e) ==
    IF getParentCell(e) # None THEN Get(w, getParentCell(e), "position") ELSE Point(0, 0)

\* x += parentPosition.x; y += parentPosition.y
AddPoint(p, q) == IF IsNaNPoint(p) THEN p ELSE Point(p.x + q.x, p.y + q.y)

\* Mutant of DeltaTo: the current position is not subtracted.
DeltaToAbsolute(p, current) ==
    IF IsNaNPoint(p) THEN NoOpt ELSE Delta(p.x, p.y)

\* (x - currentPosition.x, y - currentPosition.y): NaN for a NaN point.
DeltaTo(p, current) ==
    IF IsNaNPoint(p) THEN NoOpt ELSE Delta(p.x - current.x, p.y - current.y)

\* Mutant of positionSet: the element is not checked to be in a graph.
positionSetUnchecked(w, e, p) ==
    LET q == IF Flag(w.opt, "parentRelative") THEN AddPoint(p, parentPosition(w, e)) ELSE p
    IN  IF Flag(w.opt, "deep")
        THEN translate(w, e, DeltaTo(q, Get(w, e, "position")))
        ELSE Set(w, e, "position", q)

\* The setter position(x, y, opt).
positionSet(w, e, p) ==
    IF Flag(w.opt, "parentRelative") /\ e \notin graph THEN Throw(w, GraphError)
    ELSE
    LET q == IF Flag(w.opt, "parentRelative") THEN AddPoint(p, parentPosition(w, e)) ELSE p
    IN  IF Flag(w.opt, "deep")
        THEN translate(w, e, DeltaTo(q, Get(w, e, "position")))
        ELSE Set(w, e, "position", q)

\* The value of the getter position(opt), when it does not throw.
positionGet(w, e) ==
    LET elementPosition == Get(w, e, "position")
        pp == parentPosition(w, e)
    IN  IF Flag(w.opt, "parentRelative")
        THEN Point(elementPosition.x - pp.x, elementPosition.y - pp.y)
        ELSE elementPosition

(***************************************************************************)
(* Element.resize.  The geometry is computed on doubled coordinates: the   *)
(* centre of a box with integer corners has halves.                        *)
(***************************************************************************)
Twice(p) == Point(2 * p.x, 2 * p.y)
IsEven(n) == n % 2 = 0
Halve(p2) == IF IsNaNPoint(p2) THEN p2 ELSE Point(p2.x \div 2, p2.y \div 2)
Exact(p2) == IsNaNPoint(p2) \/ (IsEven(p2.x) /\ IsEven(p2.y))

Directions == {"left", "right", "top", "bottom",
               "top-left", "top-right", "bottom-left", "bottom-right"}

\* if (opt.direction)
HasDirection(o) == Has(o, "direction") /\ o.direction # ""

\* The new height and width after the switch on opt.direction.
DirectedHeight(direction, height, currentSize) ==
    IF direction \in {"left", "right"} THEN currentSize.height ELSE height

DirectedWidth(direction, width, currentSize) ==
    IF direction \in {"top", "bottom"} THEN currentSize.width ELSE width

\* The quadrant table; a direction outside it gives undefined.
QuadrantTable ==
    [d \in Directions |->
        CASE d \in {"top-right", "right"} -> 0
          [] d \in {"top-left", "top"} -> 1
          [] d \in {"bottom-left", "left"} -> 2
          [] OTHER -> 3]

\* quadrant += Math.floor((angle + 45) / 90); quadrant %= 4;
AbsoluteQuadrant(quadrant, angle) == (quadrant + ((angle + 45) \div 90)) % 4

Quadrant(o, angle) ==
    IF Flag(o, "absolute")
    THEN AbsoluteQuadrant(QuadrantTable[o.direction], angle)
    ELSE QuadrantTable[o.direction]

\* bbox[['bottomLeft', 'corner', 'topRight', 'origin'][quadrant]]()
FixedPoint(bbox, quadrant) ==
    CASE quadrant = 0 -> Point(bbox.x, bbox.y + bbox.height)
      [] quadrant = 1 -> Point(bbox.x + bbox.width, bbox.y + bbox.height)
      [] quadrant = 2 -> Point(bbox.x + bbox.width, bbox.y)
      [] OTHER -> Point(bbox.x, bbox.y)

\* Twice bbox.center()
Center2(bbox) == Point(2 * bbox.x + bbox.width, 2 * bbox.y + bbox.height)

\* Twice the image of the fixed point: Point(fixedPoint).rotate(bbox.center(), -angle)
ImageFixedPoint2(bbox, quadrant, angle) ==
    RotatePoint(Twice(FixedPoint(bbox, quadrant)), Center2(bbox), -angle)

\* (2 radius cos, 2 radius sin) of Math.atan(quadrant % 2 == 0 ? height / width
\* : width / height), with radius = sqrt(width^2 + height^2) / 2.
AtanVector(quadrant, width, height) ==
    IF quadrant % 2 = 0 THEN Point(width, height) ELSE Point(height, width)

\* Twice Point.fromPolar(radius, alpha, imageFixedPoint), where
\* alpha = quadrant * PI / 2 + atan(...) - toRad(angle); fromPolar puts the
\* point at (origin.x + radius cos alpha, origin.y - radius sin alpha).
\* atan(0 / 0) is NaN, and so is the point.
NewCenter2(image2, quadrant, angle, width, height) ==
    IF width = 0 /\ height = 0 THEN NaNPoint
    ELSE LET v == AtanVector(quadrant, width, height)
             turn == 90 * quadrant - angle
             c == Cos90(turn) * v.x - Sin90(turn) * v.y
             s == Sin90(turn) * v.x + Cos90(turn) * v.y
         IN  Point(image2.x + c, image2.y - s)

\* Twice Point(center).offset(width / -2, height / -2)
NewOrigin2(center2, width, height) ==
    IF IsNaNPoint(center2) THEN center2
    ELSE Point(center2.x - width, center2.y - height)

Inexact(w) == [w EXCEPT !.inexact = TRUE]

resize(w0, e, width0, height0) ==
    LET w1 == startBatch(w0, e, "resize") IN
    IF HasDirection(w1.opt)
    THEN IF w1.opt.direction \notin Directions
         THEN \* bbox[undefined] is called
              Throw(w1, TypeError)
         ELSE
         LET currentSize == Get(w1, e, "size")
             height == DirectedHeight(w1.opt.direction, height0, currentSize)
             width == DirectedWidth(w1.opt.direction, width0, currentSize)
             angle == normalizeAngle(Get(w1, e, "angle"))
             quadrant == Quadrant(w1.opt, angle)
             bbox == getBBox(w1, e, FALSE)
             imageFixedPoint2 == ImageFixedPoint2(bbox, quadrant, angle)
             center2 == NewCenter2(imageFixedPoint2, quadrant, angle, width, height)
             origin2 == NewOrigin2(center2, width, height)
             w2 == Set(w1, e, "size", Size(width, height))
             w3 == positionSet(IF Exact(origin2) THEN w2 ELSE Inexact(w2), e, Halve(origin2))
         IN  ThenStopBatch(w3, e, "resize")
    ELSE stopBatch(Set(w1, e, "size", Size(width0, height0)), e, "resize")

\* this.resize(width, height, opt), reached unless an earlier statement threw.
ThenResize(w, e, width, height) == IF Threw(w) THEN w ELSE resize(w, e, width, height)

(***************************************************************************)
(* Element.scale                                                           *)
(***************************************************************************)
scale(w0, e, sx, sy, origin) ==
    LET scaledBBox == ScaleRect(getBBox(w0, e, FALSE), sx, sy, origin)
        w1 == startBatch(w0, e, "scale")
        w2 == positionSet(w1, e, Point(scaledBBox.x, scaledBBox.y))
        w3 == ThenResize(w2, e, scaledBBox.width, scaledBBox.height)
    IN  ThenStopBatch(w3, e, "scale")

(***************************************************************************)
(* Element.fitEmbeds                                                       *)
(***************************************************************************)
RECURSIVE fitEmbeds(_, _)
RECURSIVE invokeFitEmbeds(_, _)

\* invoke(embeddedCells, 'fitEmbeds', opt)
invokeFitEmbeds(w, cells) ==
    IF cells = <<>> \/ Threw(w) THEN w
    ELSE invokeFitEmbeds(fitEmbeds(w, Head(cells)), Tail(cells))

\* Mutant of PaddedBox: the box is moved by the padding and widened by it once.
PaddedBoxOnce(bbox, padding) ==
    moveAndExpand(bbox, Rect(-padding.left, -padding.top, padding.right, padding.bottom))

\* The children's union box with the padding applied.
PaddedBox(bbox, padding) ==
    moveAndExpand(bbox, Rect(-padding.left, -padding.top,
                             padding.right + padding.left, padding.bottom + padding.top))

fitEmbeds(w0, e) ==
    IF e \notin graph THEN Throw(w0, GraphError)
    ELSE
    LET embeddedCells == getEmbeddedCells(e) IN
    IF Len(embeddedCells) > 0
    THEN LET w1 == startBatch(w0, e, "fit-embeds")
             w2 == IF Flag(w1.opt, "deep") THEN invokeFitEmbeds(w1, embeddedCells) ELSE w1
             bbox == PaddedBox(getCellsBBox(w2, Children(e)), normalizeSides(w2.opt))
             w3 == SetBox(w2, e, Point(bbox.x, bbox.y), Size(bbox.width, bbox.height))
         IN  stopBatch(w3, e, "fit-embeds")
    ELSE w0

(***************************************************************************)
(* Element.rotate.  `origin` is a point, or NoOpt for a call without one.  *)
(***************************************************************************)
\* absolute ? angle : (this.get('angle') + angle) % 360
RotatedAngle(current, angle, absolute) ==
    IF absolute THEN angle ELSE JsRem(current + angle, 360)

\* Twice (dx, dy), the move of the element when it turns about `origin`.
RotateShift2(bbox, origin, turn) ==
    LET center2 == RotatePoint(Center2(bbox), Twice(origin), turn)
    IN  Point(center2.x - bbox.width - 2 * bbox.x, center2.y - bbox.height - 2 * bbox.y)

rotateInPlace(w, e, angle, absolute) ==
    Set(w, e, "angle", RotatedAngle(Get(w, e, "angle"), angle, absolute))

\* this.rotate(angle, absolute, null, opt), reached unless an earlier statement threw.
ThenRotateInPlace(w, e, angle, absolute) ==
    IF Threw(w) THEN w ELSE rotateInPlace(w, e, angle, absolute)

rotate(w0, e, angle, absolute, origin) ==
    IF Has(origin, "x")
    THEN LET position == Get(w0, e, "position")
             d2 == RotateShift2(getBBox(w0, e, FALSE), origin, Get(w0, e, "angle") - angle)
             d == Halve(d2)
             w1 == startBatch(IF Exact(d2) THEN w0 ELSE Inexact(w0), e, "rotate")
             w2 == positionSet(w1, e, Point(position.x + d.x, position.y + d.y))
             w3 == ThenRotateInPlace(w2, e, angle, absolute)
         IN  ThenStopBatch(w3, e, "rotate")
    ELSE rotateInPlace(w0, e, angle, absolute)

(***************************************************************************)
(* Construction: three elements, built with attributes drawn from small    *)
(* sets, of which some are added to a graph and embedded in one another.   *)
(* An element that embeds or is embedded is in the graph.                  *)
(***************************************************************************)
NoParent == [c \in Cells |-> None]
Chain == [NoParent EXCEPT !["b"] = "a", !["c"] = "b"]
Fan == [NoParent EXCEPT !["b"] = "a", !["c"] = "a"]
Pair == [NoParent EXCEPT !["b"] = "a"]

Layouts ==
    {[graph |-> Cells, parent |-> Chain],
     [graph |-> Cells, parent |-> Fan],
     [graph |-> Cells, parent |-> Pair],
     [graph |-> {"a", "b"}, parent |-> Pair],
     [graph |-> {}, parent |-> NoParent]}

Attrs(box, angle) ==
    [position |-> Point(box.x, box.y), size |-> Size(box.width, box.height), angle |-> angle]

InitAttrs ==
    [a : {Attrs(box, angle) : box \in {Rect(0, 0, 10, 10), Rect(5, 10, 20, 10),
                                        Rect(5, 10, 10, 10)},
                              angle \in {0, 90, 180, 270, -90}},
     b : {Attrs(box, angle) : box \in {Rect(0, 0, 10, 10), Rect(-5, 5, 10, 20)},
                              angle \in {0, 90}},
     c : {Attrs(box, angle) : box \in {Rect(0, 0, 10, 10), Rect(10, -5, 20, 10)},
                              angle \in {0}}]

NoBatches == [c \in Cells |-> [n \in BatchNames |-> 0]]
NoCall == [op |-> "none"]

Snapshot(a, b) == [attrs |-> a, batches |-> b]

Init ==
    /\ \E l \in Layouts : graph = l.graph /\ parent = l.parent
    /\ attrs \in InitAttrs
    /\ batches = NoBatches
    /\ before = Snapshot(attrs, batches)
    /\ call = NoCall
    /\ opt = NoOpt
    /\ events = <<>>
    /\ thrown = NoError
    /\ ret = NoOpt

(***************************************************************************)
(* One call of a method.  Ready: no call was made yet.  Finish stores what  *)
(* the call left behind; a call that computed a coordinate with a half is  *)
(* not explored.                                                           *)
(***************************************************************************)
Ready == call = NoCall

World(o) == [attrs |-> attrs, batches |-> batches, events |-> <<>>,
             thrown |-> NoError, opt |-> o, inexact |-> FALSE]

Finish(w, c, r) ==
    /\ ~w.inexact
    /\ attrs' = w.attrs
    /\ batches' = w.batches
    /\ events' = w.events
    /\ thrown' = w.thrown
    /\ opt' = w.opt
    /\ before' = Snapshot(attrs, batches)
    /\ call' = c
    /\ ret' = r
    /\ UNCHANGED <<graph, parent>>

RestrictedAreas == {Rect(0, 0, 15, 15), Rect(5, 5, 30, 30)}

TranslateArgs ==
    {NoOpt, Delta(0, 0), Delta(20, 0), Delta(-5, 20), [tx |-> 5], [ty |-> -20]}

TranslateOpts ==
    {NoOpt, [transition |-> "true"]}
    \cup {[restrictedArea |-> ra] : ra \in RestrictedAreas}
    \cup {[restrictedArea |-> Rect(0, 0, 15, 15), translateBy |-> "b"],
          [restrictedArea |-> Rect(0, 0, 15, 15), transition |-> "{}"]}

Translate(e, d, o) ==
    /\ Ready
    /\ Finish(translate(World(o), e, d),
              [op |-> "translate", cell |-> e, d |-> d, opt |-> o], NoOpt)

PositionOpts ==
    {NoOpt, [deep |-> TRUE], [parentRelative |-> TRUE],
     [deep |-> TRUE, parentRelative |-> TRUE]}

PositionSet(e, p, o) ==
    /\ Ready
    /\ Finish(positionSet(World(o), e, p),
              [op |-> "position", cell |-> e, p |-> p, opt |-> o], NoOpt)

PositionGet(e, o) ==
    /\ Ready
    /\ IF Flag(o, "parentRelative") /\ e \notin graph
       THEN Finish(Throw(World(o), GraphError),
                   [op |-> "position()", cell |-> e, opt |-> o], NoOpt)
       ELSE Finish(World(o), [op |-> "position()", cell |-> e, opt |-> o],
                   positionGet(World(o), e))

ResizeSides == {Size(0, 0)} \cup {Size(10 * i, 10 * j) : i, j \in 1 .. MaxSide}

ResizeOpts ==
    {NoOpt, [direction |-> ""], [direction |-> "center"],
     [direction |-> "right", parentRelative |-> TRUE],
     [direction |-> "top-left", deep |-> TRUE]}
    \cup {[direction |-> d] : d \in Directions}
    \cup {[direction |-> d, absolute |-> TRUE] : d \in Directions}

Resize(e, s, o) ==
    /\ Ready
    /\ Finish(resize(World(o), e, s.width, s.height),
              [op |-> "resize", cell |-> e, width |-> s.width, height |-> s.height,
               opt |-> o], NoOpt)

ScaleOpts == {NoOpt, [parentRelative |-> TRUE], [direction |-> "bottom-right"],
              [direction |-> "middle"]}

Scale(e, sx, sy, origin, o) ==
    /\ Ready
    /\ Finish(scale(World(o), e, sx, sy, origin),
              [op |-> "scale", cell |-> e, sx |-> sx, sy |-> sy, origin |-> origin,
               opt |-> o], NoOpt)

FitOpts ==
    {NoOpt, [deep |-> TRUE]}
    \cup {[padding |-> p] : p \in -1 .. MaxPadding}
    \cup {[padding |-> p, deep |-> TRUE] : p \in {MaxPadding}}

FitEmbeds(e, o) ==
    /\ Ready
    /\ Finish(fitEmbeds(World(o), e), [op |-> "fitEmbeds", cell |-> e, opt |-> o], NoOpt)

RotateAngles == {90 * k : k \in -1 .. MaxTurns}
RotateOrigins == {NoOpt, Point(5, 15)}
RotateOpts == {NoOpt, [parentRelative |-> TRUE]}

Rotate(e, angle, absolute, origin, o) ==
    /\ Ready
    /\ Finish(rotate(World(o), e, angle, absolute, origin),
              [op |-> "rotate", cell |-> e, angle |-> angle, absolute |-> absolute,
               origin |-> origin, opt |-> o], NoOpt)

Next ==
    \/ \E e \in Cells, d \in TranslateArgs, o \in TranslateOpts : Translate(e, d, o)
    \/ \E e \in Cells, p \in {Point(0, 0), Point(7, -3)}, o \in PositionOpts :
          PositionSet(e, p, o)
    \/ \E e \in Cells, o \in {NoOpt, [parentRelative |-> TRUE]} : PositionGet(e, o)
    \/ \E e \in Cells, s \in ResizeSides, o \in ResizeOpts : Resize(e, s, o)
    \/ \E e \in Cells, sx, sy \in 1 .. MaxScale, origin \in {Point(0, 0), Point(5, 5)},
          o \in ScaleOpts : Scale(e, sx, sy, origin, o)
    \/ \E e \in Cells, o \in FitOpts : FitEmbeds(e, o)
    \/ \E e \in Cells, angle \in RotateAngles, absolute \in BOOLEAN,
          origin \in RotateOrigins, o \in RotateOpts : Rotate(e, angle, absolute, origin, o)

Spec == Init /\ [][Next]_vars

(***************************************************************************)
(* Properties.  They are stated on the attributes before and after the     *)
(* call, with the embedding read from `parent` directly.                   *)
(***************************************************************************)
RECURSIVE EmbeddedIn(_, _)
\* c is e or is embedded, at any depth, in e.
EmbeddedIn(c, e) ==
    \/ c = e
    \/ parent[c] # None /\ EmbeddedIn(parent[c], e)

Subtree(e) == {c \in Cells : EmbeddedIn(c, e)}

Moved(c, tx, ty) ==
    attrs[c].position = Point(before.attrs[c].position.x + tx,
                              before.attrs[c].position.y + ty)

SameSizeAndAngle(c) ==
    /\ attrs[c].size = before.attrs[c].size
    /\ attrs[c].angle = before.attrs[c].angle

PositionChanges(c) ==
    Cardinality({i \in 1 .. Len(events) : events[i] = Event("change", c, "position")})

NothingChanged ==
    /\ attrs = before.attrs
    /\ batches = before.batches
    /\ events = <<>>

PlainTranslate ==
    /\ call.op = "translate"
    /\ ~Has(call.opt, "restrictedArea")
    /\ ~Has(call.opt, "transition")
    /\ ~NothingHappened(OrZero(call.d, "tx"), OrZero(call.d, "ty"))

\* C1: translate(tx, ty) with (tx, ty) other than (0, 0) and without a
\* restricted area (and not animated) moves the element and every element
\* embedded in it, at any depth, by exactly (tx, ty), each one once; no size
\* and no angle changes, and no element outside the subtree moves.
C1_TranslateMovesSubtree ==
    PlainTranslate =>
        /\ \A c \in Subtree(call.cell) :
              /\ Moved(c, OrZero(call.d, "tx"), OrZero(call.d, "ty"))
              /\ PositionChanges(c) = 1
        /\ \A c \in Cells \ Subtree(call.cell) :
              /\ attrs[c].position = before.attrs[c].position
              /\ PositionChanges(c) = 0
        /\ \A c \in Cells : SameSizeAndAngle(c)

C1_Witness ==
    /\ PlainTranslate
    /\ parent = Chain
    /\ call.cell = "b"
    /\ call.d = Delta(-5, 20)
    /\ attrs["c"].position # before.attrs["c"].position
    /\ attrs["a"].position = before.attrs["a"].position

\* C4: translate(0, 0), also with tx or ty left out, does nothing, whatever
\* the options and the embedded subtree: no attribute of any element changes,
\* nothing is notified, no batch is started, nothing is raised, and the
\* options object is left as it was passed.
C4_TranslateZeroIsNoop ==
    (call.op = "translate" /\ OrZero(call.d, "tx") = 0 /\ OrZero(call.d, "ty") = 0) =>
        /\ NothingChanged
        /\ thrown = NoError
        /\ opt = call.opt

C4_Witness ==
    /\ call.op = "translate"
    /\ call.d = NoOpt
    /\ call.cell = "a"
    /\ parent = Fan
    /\ Has(call.opt, "restrictedArea")
    /\ opt = call.opt

\* The box of cell c in the attributes `a`.
BoxIn(a, c) == Rect(a[c].position.x, a[c].position.y, a[c].size.width, a[c].size.height)

Inside(box, area) ==
    /\ area.x <= box.x
    /\ area.y <= box.y
    /\ box.x + box.width <= area.x + area.width
    /\ box.y + box.height <= area.y + area.height

\* A top-level translate(tx, ty, {restrictedArea}) on an element of a graph.
RestrictedTranslate ==
    /\ call.op = "translate"
    /\ DOMAIN call.opt = {"restrictedArea"}
    /\ call.cell \in graph

\* The width and the height of the subtree's deep box before the call.
DeepWidthBefore(e) ==
    SetMax({BoxIn(before.attrs, c).x + BoxIn(before.attrs, c).width : c \in Subtree(e)})
    - SetMin({BoxIn(before.attrs, c).x : c \in Subtree(e)})

DeepHeightBefore(e) ==
    SetMax({BoxIn(before.attrs, c).y + BoxIn(before.attrs, c).height : c \in Subtree(e)})
    - SetMin({BoxIn(before.attrs, c).y : c \in Subtree(e)})

DeepBoxInsideArea ==
    \A c \in Subtree(call.cell) : Inside(BoxIn(attrs, c), call.opt.restrictedArea)

\* C2 as stated: after a top-level translate(tx, ty, {restrictedArea}) on an
\* element of a graph, for every tx, ty and every subtree, the element and all
\* its embedded descendants lie inside the restricted area.
C2_AlwaysInsideArea == RestrictedTranslate => DeepBoxInsideArea

\* C2 amended: it holds when (tx, ty) is not (0, 0) and the deep bounding box
\* is no wider and no higher than the restricted area; and from deep box
\* (0,0,10,10), position (0,0), area (0,0,15,15), translate(20, 0) ends at (5,0).
C2_InsideAreaWhenItFits ==
    /\ ( /\ RestrictedTranslate
         /\ ~NothingHappened(OrZero(call.d, "tx"), OrZero(call.d, "ty"))
         /\ DeepWidthBefore(call.cell) <= call.opt.restrictedArea.width
         /\ DeepHeightBefore(call.cell) <= call.opt.restrictedArea.height )
       => DeepBoxInsideArea
    /\ ( /\ RestrictedTranslate
         /\ call.d = Delta(20, 0)
         /\ call.opt.restrictedArea = Rect(0, 0, 15, 15)
         /\ before.attrs[call.cell].position = Point(0, 0)
         /\ \A c \in Subtree(call.cell) : BoxIn(before.attrs, c) = Rect(0, 0, 10, 10) )
       => attrs[call.cell].position = Point(5, 0)

\* A parent whose child sticks out of it to the left and to the top is clamped
\* with the child at the area's edge.
C2_Witness ==
    /\ RestrictedTranslate
    /\ call.cell = "a"
    /\ parent = Pair
    /\ call.d = Delta(-5, 20)
    /\ call.opt.restrictedArea = Rect(5, 5, 30, 30)
    /\ before.attrs["a"].position = Point(5, 10)
    /\ before.attrs["b"].position = Point(-5, 5)
    /\ DeepWidthBefore("a") <= 30
    /\ attrs["b"].position.x = 5
    /\ attrs["a"].position # before.attrs["a"].position

\* C3 as stated: after a rotate that returns, from a stored angle in
\* [0, 360), the stored angle is in [0, 360), whatever the angle argument.
C3_AngleNormalizedAfterRotate ==
    (call.op = "rotate" /\ thrown = NoError
        /\ before.attrs[call.cell].angle \in 0 .. 359)
    => attrs[call.cell].angle \in 0 .. 359

\* C7: on an element that is not in a graph, position with parentRelative
\* (getter and setter) and fitEmbeds raise 'Element must be part of a graph.'
\* before they change anything: no attribute, no notification, no batch.
C7_UnattachedFailsFirst ==
    ( /\ call.op \in {"position", "position()", "fitEmbeds"}
      /\ call.cell \notin graph
      /\ call.op = "fitEmbeds" \/ Flag(call.opt, "parentRelative") )
    => (thrown = GraphError /\ NothingChanged)

C7_Witness ==
    /\ call.op = "position"
    /\ call.cell \notin graph
    /\ Flag(call.opt, "parentRelative")
    /\ Flag(call.opt, "deep")
    /\ call.p # before.attrs[call.cell].position
    /\ thrown = GraphError

\* C8 as stated: resize with a direction that is none of the eight names does
\* what resize without a direction does: no error, size (width, height), the
\* position unchanged, the batch closed.
C8_UnknownDirectionIsUnanchored ==
    (call.op = "resize" /\ HasDirection(call.opt) /\ call.opt.direction \notin Directions)
    => /\ thrown = NoError
       /\ attrs[call.cell].size = Size(call.width, call.height)
       /\ attrs[call.cell].position = before.attrs[call.cell].position
       /\ batches = before.batches

\* C9: position(x, y) without deep sets the element's own position and moves
\* no embedded descendant; position(x, y, {deep: true}) puts the element at
\* (x, y) and moves every embedded descendant by (x - oldX, y - oldY).
C9_PositionDeepOrNot ==
    /\ (call.op = "position" /\ call.opt = NoOpt) =>
          /\ attrs[call.cell].position = call.p
          /\ \A c \in Cells \ {call.cell} : attrs[c] = before.attrs[c]
    /\ (call.op = "position" /\ call.opt = [deep |-> TRUE]) =>
          /\ attrs[call.cell].position = call.p
          /\ \A c \in Subtree(call.cell) :
                Moved(c, call.p.x - before.attrs[call.cell].position.x,
                         call.p.y - before.attrs[call.cell].position.y)
          /\ \A c \in Cells \ Subtree(call.cell) : attrs[c] = before.attrs[c]

C9_Witness ==
    /\ call.op = "position"
    /\ call.opt = [deep |-> TRUE]
    /\ call.cell = "a"
    /\ parent = Chain
    /\ call.p = Point(7, -3)
    /\ before.attrs["a"].position = Point(5, 10)
    /\ before.attrs["c"].position = Point(10, -5)
    /\ attrs["c"].position = Point(12, -18)

\* C10 as stated, for the elements of a graph: after a call of translate,
\* resize, scale, rotate or fitEmbeds, ended by an error or not, every element
\* has as many open batches as before the call.
C10_BatchesBalanced ==
    (call.op \in {"translate", "resize", "scale", "rotate", "fitEmbeds"}
        /\ call.cell \in graph)
    => batches = before.batches

\* resize(width, height, {direction}) or {direction, absolute} with one of the
\* eight directions.
AnchoredResize ==
    /\ call.op = "resize"
    /\ DOMAIN call.opt \subseteq {"direction", "absolute"}
    /\ HasDirection(call.opt)
    /\ call.opt.direction \in Directions

\* The quadrant of the call: the table's, turned by the angle when absolute.
AnchorQuadrant ==
    Quadrant(call.opt, before.attrs[call.cell].angle % 360)

\* The anchor corner of a box: quadrant 0 bottom-left, 1 the far corner,
\* 2 top-right, 3 the origin.
AnchorCorner(box, q) ==
    Point(IF q \in {1, 2} THEN box.x + box.width ELSE box.x,
          IF q \in {0, 1} THEN box.y + box.height ELSE box.y)

RECURSIVE QuarterTurns(_, _)
\* v turned k times by 90 degrees (x to the right, y down).
QuarterTurns(v, k) == IF k = 0 THEN v ELSE QuarterTurns(Point(-v.y, v.x), k - 1)

\* Twice the place in the world of the anchor corner of `box` turned by
\* `angle` about the centre of the box.
AnchorInWorld2(box, q, angle) ==
    LET c == Point(2 * box.x + box.width, 2 * box.y + box.height)
        corner == AnchorCorner(box, q)
        v == QuarterTurns(Point(2 * corner.x - c.x, 2 * corner.y - c.y), (angle % 360) \div 90)
    IN  Point(c.x + v.x, c.y + v.y)

AnchorStays ==
    /\ ~IsNaNPoint(attrs[call.cell].position)
    /\ AnchorInWorld2(BoxIn(attrs, call.cell), AnchorQuadrant, attrs[call.cell].angle)
       = AnchorInWorld2(BoxIn(before.attrs, call.cell), AnchorQuadrant,
                        before.attrs[call.cell].angle)

\* C5 as stated: for each of the eight directions, every new width and height
\* and every angle that is a multiple of 90 degrees, the anchor corner of
\* resize(width, height, {direction}) is at the same place in the world before
\* and after the call.
C5_AnchorStays == AnchoredResize => AnchorStays

\* What holds of the code: the same, unless the new width and the new height
\* are both 0.
C5_AnchorStaysUnlessEmpty ==
    (AnchoredResize /\ attrs[call.cell].size # Size(0, 0)) => AnchorStays

\* The example of C5: position (0,0), size (10,10), angle 0,
\* resize(20, 10, {direction: 'right'}) ends with position (0,0), size (20,10).
C5_Example ==
    ( /\ AnchoredResize
      /\ call.opt = [direction |-> "right"]
      /\ call.width = 20 /\ call.height = 10
      /\ before.attrs[call.cell] = Attrs(Rect(0, 0, 10, 10), 0) )
    => attrs[call.cell] = Attrs(Rect(0, 0, 20, 10), 0)

C5_ExampleWitness ==
    /\ AnchoredResize
    /\ call.opt = [direction |-> "right"]
    /\ call.width = 20 /\ call.height = 10
    /\ before.attrs[call.cell] = Attrs(Rect(0, 0, 10, 10), 0)

C5_TurnedWitness ==
    /\ AnchoredResize
    /\ call.opt = [direction |-> "top", absolute |-> TRUE]
    /\ before.attrs[call.cell] = Attrs(Rect(5, 10, 20, 10), 90)
    /\ attrs[call.cell].size = Size(20, 20)
    /\ attrs[call.cell].position # Point(5, 10)

FitCall ==
    /\ call.op = "fitEmbeds"
    /\ call.cell \in graph
    /\ DOMAIN call.opt \subseteq {"padding", "deep"}

PaddingOf(o) == IF Has(o, "padding") THEN o.padding ELSE 0

\* C6: for an element of a graph with embedded children, fitEmbeds({padding})
\* sets position and size to the union box of the direct children, widened by
\* the padding on each of the four sides; every direct child's box is then
\* inside the element's box when the padding is not negative.  With no
\* embedded child nothing changes.  Children of union (0,0,10,10) and padding
\* 2 give position (-2,-2) and size (14,14).
C6_FitEmbedsIsPaddedUnion ==
    /\ (FitCall /\ Children(call.cell) # {}) =>
          LET kids == {BoxIn(attrs, c) : c \in Children(call.cell)}
              pad == PaddingOf(call.opt)
              left == SetMin({k.x : k \in kids})
              top == SetMin({k.y : k \in kids})
              right == SetMax({k.x + k.width : k \in kids})
              bottom == SetMax({k.y + k.height : k \in kids})
              own == BoxIn(attrs, call.cell)
          IN  /\ own = Rect(left - pad, top - pad,
                            right - left + 2 * pad, bottom - top + 2 * pad)
              /\ pad >= 0 => \A k \in kids : Inside(k, own)
              /\ thrown = NoError
              /\ (kids = {Rect(0, 0, 10, 10)} /\ pad = 2) => own = Rect(-2, -2, 14, 14)
              /\ ~Flag(call.opt, "deep") =>
                    \A c \in Cells \ {call.cell} : attrs[c] = before.attrs[c]
    /\ (FitCall /\ Children(call.cell) = {}) => (NothingChanged /\ thrown = NoError)

C6_Witness ==
    /\ FitCall
    /\ call.opt = [padding |-> 2]
    /\ call.cell = "a"
    /\ parent = Fan
    /\ before.attrs["a"].position = Point(5, 10)
    /\ attrs["b"].position = Point(-5, 5)
    /\ attrs["c"].position = Point(10, -5)
    /\ attrs["a"].position = Point(-7, -7)
    /\ attrs["a"].size = Size(39, 34)

====
